---- MODULE Spec2Model ----
(***************************************************************************)
(* Opportunity scoring and classification engine (src/src/engine_core.py). *)
(*                                                                         *)
(* A table is a sequence of rows (records); a table built row by row is    *)
(* concatenated with <<>> so that it is held as a sequence.  A nullable    *)
(* number is <<>> (NaN) or <<v>>; a null string cell is the string "NaN".  *)
(* Units: clicks and impressions are whole numbers; a position is held in  *)
(* tenths (2.0 is 20); a click-through rate is held in percent (0.28 is    *)
(* 28) and a percent-change ratio in hundredths (-0.5 is -50); a           *)
(* percentile score, the demand estimate and the utilization are exact     *)
(* fractions [num, den].                                                   *)
(* arg and result hold the argument and the return value of one call of a  *)
(* parsing or click-through helper.  file is engine_output.csv, serp_file  *)
(* is serp_output.csv, loaded is the data frame in memory and stages lists *)
(* the stages a stage-by-stage run has executed.                           *)
(***************************************************************************)
EXTENDS Integers, Sequences, FiniteSets, TLC

VARIABLES input, loaded, file, pc, hashseed, prev_file, run, arg, result,
          serp_file, stages

vars == <<input, loaded, file, pc, hashseed, prev_file, run, arg, result,
          serp_file, stages>>

(***************************************************************************)
(* Nullable numbers (pandas NaN)                                           *)
(***************************************************************************)
NaN == <<>>

Num(v) == <<v>>

isna(x) == x = NaN

fillna(x, v) == IF isna(x) THEN v ELSE x[1]

\* NaN-propagating subtraction of two columns
Minus(a, b) == IF isna(a) \/ isna(b) THEN NaN ELSE Num(a[1] - b[1])

\* Series.clip(lower=0)
clip_lower0(x) == IF isna(x) THEN NaN ELSE IF x[1] < 0 THEN Num(0) ELSE x

\* comparisons with NaN are False
gt(x, v) == ~isna(x) /\ x[1] > v

ge(x, v) == ~isna(x) /\ x[1] >= v

\* exact fractions
Frac(n, d) == [num |-> n, den |-> d]

frac_ge(q, v) == ~isna(q) /\ q[1].num >= v * q[1].den

\* q < pct/100
frac_lt_pct(q, pct) == ~isna(q) /\ q[1].num * 100 < pct * q[1].den

(***************************************************************************)
(* Program constants                                                       *)
(***************************************************************************)
PERIOD_MONTHS == 3

ACTION_PERCENTILE == 70

MIN_MSV_FOR_ACTION == 300

MIN_GAP_FOR_ACTION == 30

HASH_MOD == 10000

(***************************************************************************)
(* Bounds                                                                  *)
(***************************************************************************)
MaxRows == 2

MaxGroupRows == 3

MaxSeed == 2

MaxRuns == 2

\* rows of a table whose cells are missing, blank or percent changes
MaxInputRows == 2

\* characters of a generated cell text
MaxCellLen == 3

\* comma-separated pieces of a feature text
MaxFeatures == 3

\* the largest position, in tenths
MaxPosition == 120

\* rows of a table with two keywords on two urls each
MaxCollideRows == 4

\* the largest configured max_retries
MaxRetries == 2

(***************************************************************************)
(* String cells.  Substring tests are answered from the text of the        *)
(* modelled cells: Contains(s, p) is "p in s" for the lower-cased cell s.  *)
(***************************************************************************)
NaNStr == "NaN"

Patterns(s) ==
    CASE s = "https://f.io/features/a"     -> {"/features/"}
      [] s = "https://f.io/templates/b"    -> {"/template"}
      [] s = "https://f.io/blog/app-forms" -> {"/blog/", "/app"}
      [] s = "https://f.io/blog/c"         -> {"/blog/"}
      [] s = "https://f.io/pricing"        -> {}
      [] s = "form builder"                -> {}
      [] s = "survey maker"                -> {}
      [] s = "jotform login"               -> {"jotform", "login"}
      [] s = "how to sign in"              -> {"sign in"}
      [] OTHER                             -> {}

Contains(s, p) == p \in Patterns(s)

\* str(x).strip() == ""
IsBlank(s) == s \in {"", " "}

_page_type(url) ==
    IF url = NaNStr THEN "unknown"
    ELSE IF Contains(url, "/login") \/ Contains(url, "/app") \/ Contains(url, "/user")
         THEN "system"
    ELSE IF Contains(url, "/blog/") THEN "blog"
    ELSE IF Contains(url, "/template") THEN "template"
    ELSE IF Contains(url, "/features/") THEN "feature"
    ELSE "other"

_query_type(q) ==
    IF q = NaNStr THEN "unknown"
    ELSE IF Contains(q, "jotform") \/ Contains(q, "login") \/ Contains(q, "sign in")
         THEN "brand"
    ELSE "non-brand"

(***************************************************************************)
(* Parsing helpers.  A cell is null (NaN) or Cell(t), t the text of the    *)
(* cell as a sequence of characters; a parsed number is null or an exact   *)
(* fraction [num, den] with den a power of ten.                            *)
(***************************************************************************)
Cell(t) == <<t>>

HasChar(t, c) == \E i \in 1..Len(t) : t[i] = c

\* t.replace(c, "")
Remove(t, c) == SelectSeq(t, LAMBDA x : x # c)

\* t.replace(c, d)
Replace(t, c, d) == [i \in 1..Len(t) |-> IF t[i] = c THEN d ELSE t[i]] \o <<>>

RECURSIVE LStrip(_)
LStrip(t) == IF t # <<>> /\ Head(t) = " " THEN LStrip(Tail(t)) ELSE t

RECURSIVE RStrip(_)
RStrip(t) ==
    IF t # <<>> /\ t[Len(t)] = " " THEN RStrip(SubSeq(t, 1, Len(t) - 1)) ELSE t

\* t.strip()
Strip(t) == RStrip(LStrip(t))

Digits == {"0", "1", "2", "3", "4", "5", "6", "7", "8", "9"}

DigitValue(c) ==
    CASE c = "0" -> 0 [] c = "1" -> 1 [] c = "2" -> 2 [] c = "3" -> 3 [] c = "4" -> 4
      [] c = "5" -> 5 [] c = "6" -> 6 [] c = "7" -> 7 [] c = "8" -> 8 [] c = "9" -> 9

RECURSIVE DigitsValue(_)
DigitsValue(t) ==
    IF t = <<>> THEN 0
    ELSE 10 * DigitsValue(SubSeq(t, 1, Len(t) - 1)) + DigitValue(t[Len(t)])

RECURSIVE Pow10(_)
Pow10(n) == IF n = 0 THEN 1 ELSE 10 * Pow10(n - 1)

\* pd.to_numeric(text, errors="coerce") on a text of digits, signs, points
\* and other characters: an optional sign, digits with at most one point and
\* at least one digit, anything else coerced to null
to_numeric(t) ==
    LET signed == t # <<>> /\ t[1] \in {"-", "+"}
        body   == IF signed THEN Tail(t) ELSE t
        points == {i \in 1..Len(body) : body[i] = "."}
        digits == Remove(body, ".")
        dot    == IF points = {} THEN Len(body) + 1 ELSE CHOOSE i \in points : TRUE
        value  == DigitsValue(digits)
    IN  IF /\ digits # <<>>
           /\ \A i \in 1..Len(digits) : digits[i] \in Digits
           /\ Cardinality(points) <= 1
        THEN Num(Frac(IF signed /\ t[1] = "-" THEN 0 - value ELSE value,
                      Pow10(IF points = {} THEN 0 ELSE Len(body) - dot)))
        ELSE NaN

\* variant: "," always a thousands separator, "." always the decimal point
_parse_number_us(x) ==
    IF isna(x) THEN NaN
    ELSE to_numeric(Remove(Strip(Remove(x[1], "%")), ","))

_parse_number(x) ==
    IF isna(x) THEN NaN
    ELSE LET t == Strip(Remove(x[1], "%"))
         IN  IF HasChar(t, ",") /\ HasChar(t, ".")
             THEN to_numeric(Replace(Remove(t, "."), ",", "."))
             ELSE to_numeric(Replace(t, ",", "."))

\* abs(v) > 5
abs_gt5(v) == v.num > 5 * v.den \/ 0 - v.num > 5 * v.den

\* variant: a magnitude of exactly 5 is divided as well
_parse_pct_from5(x) ==
    LET v == _parse_number(x)
    IN  IF isna(v) THEN NaN
        ELSE IF abs_gt5(v[1]) \/ v[1].num = 5 * v[1].den \/ 0 - v[1].num = 5 * v[1].den
             THEN Num(Frac(v[1].num, v[1].den * 100))
        ELSE v

_parse_pct(x) ==
    LET v == _parse_number(x)
    IN  IF isna(v) THEN NaN
        ELSE IF abs_gt5(v[1]) THEN Num(Frac(v[1].num, v[1].den * 100))
        ELSE v

(***************************************************************************)
(* Click-through model, in percent, of a position in tenths                *)
(***************************************************************************)
\* variant: the upper end of each step excluded
_expected_ctr_exclusive(pos) ==
    IF isna(pos) THEN NaN
    ELSE IF pos[1] < 10 THEN Num(28)
    ELSE IF pos[1] < 20 THEN Num(15)
    ELSE IF pos[1] < 30 THEN Num(11)
    ELSE IF pos[1] < 40 THEN Num(8)
    ELSE IF pos[1] < 50 THEN Num(6)
    ELSE IF pos[1] < 100 THEN Num(3)
    ELSE Num(1)

_expected_ctr(pos) ==
    IF isna(pos) THEN NaN
    ELSE IF pos[1] <= 10 THEN Num(28)
    ELSE IF pos[1] <= 20 THEN Num(15)
    ELSE IF pos[1] <= 30 THEN Num(11)
    ELSE IF pos[1] <= 40 THEN Num(8)
    ELSE IF pos[1] <= 50 THEN Num(6)
    ELSE IF pos[1] <= 100 THEN Num(3)
    ELSE Num(1)

\* A feature text is null or Cell(toks), toks the pieces between its commas;
\* the adjusted rate is in hundredths of a percent (0.28 is 2800).
\* f.strip() of str(serp_features).lower().split(",") for the modelled pieces
Normal(tok) ==
    CASE tok = " PAA"  -> "paa"
      [] tok = "Video" -> "video"
      [] tok = " "     -> ""
      [] OTHER         -> tok

\* the penalty, in percent, each listed feature adds
FeaturePenalty(f) ==
    CASE f = "featured_snippet" -> 40
      [] f = "paa"              -> 15
      [] f = "video"            -> 25
      [] f = "images"           -> 10
      [] f = "shopping"         -> 20
      [] OTHER                  -> 0

min2(a, b) == IF a <= b THEN a ELSE b

\* variant: the penalty is not capped
_expected_ctr_with_serp_uncapped(pos, serp_features) ==
    LET base_ctr == _expected_ctr(pos)
    IN  IF isna(base_ctr) THEN NaN
        ELSE IF isna(serp_features) THEN Num(base_ctr[1] * 100)
        ELSE IF Len(serp_features[1]) = 1 /\ Normal(serp_features[1][1]) = ""
             THEN Num(base_ctr[1] * 100)
        ELSE LET toks     == serp_features[1]
                 features == {Normal(toks[i]) : i \in 1..Len(toks)}
                 In(f)    == IF f \in features THEN FeaturePenalty(f) ELSE 0
                 penalty  == In("featured_snippet") + In("paa") + In("video")
                             + In("images") + In("shopping")
             IN  Num(base_ctr[1] * (100 - penalty))

_expected_ctr_with_serp(pos, serp_features) ==
    LET base_ctr == _expected_ctr(pos)
    IN  IF isna(base_ctr) THEN NaN
        ELSE IF isna(serp_features) THEN Num(base_ctr[1] * 100)
        ELSE IF Len(serp_features[1]) = 1 /\ Normal(serp_features[1][1]) = ""
             THEN Num(base_ctr[1] * 100)
        ELSE LET toks     == serp_features[1]
                 features == {Normal(toks[i]) : i \in 1..Len(toks)}
                 In(f)    == IF f \in features THEN FeaturePenalty(f) ELSE 0
                 penalty  == In("featured_snippet") + In("paa") + In("video")
                             + In("images") + In("shopping")
             IN  Num(base_ctr[1] * (100 - min2(penalty, 70)))

\* impr_last * ctr; exact because every modelled impression count is a
\* multiple of 100
expected_clicks_base(r) ==
    IF isna(r.impr_last) \/ isna(_expected_ctr(r.pos)) THEN NaN
    ELSE Num((r.impr_last[1] * _expected_ctr(r.pos)[1]) \div 100)

(***************************************************************************)
(* run_engine, column by column.  An input row carries the parsed cells    *)
(* keyword, url, clicks_last, impr_last, pos and either clicks_prev,       *)
(* impr_prev (pre-processed header set) or clicks_pct, impr_pct (raw       *)
(* export header set); the fields of a row are the columns of the table.   *)
(***************************************************************************)
\* r.get(col): a column the table does not have reads as null
Get(r, col) == IF col \in DOMAIN r THEN r[col] ELSE NaN

\* "clicks_prev" in df.columns and "impr_prev" in df.columns
has_prev_data(t) == "clicks_prev" \in DOMAIN t[1] /\ "impr_prev" \in DOMAIN t[1]

\* last / (1 + pct) on the Python floats of a row raises ZeroDivisionError
\* when pct is -1
infer_raises(last, pct) == ~isna(last) /\ ~isna(pct) /\ 100 + pct[1] = 0

\* exact for the modelled cells
_infer_prev(last, pct) ==
    IF isna(last) \/ isna(pct) THEN NaN
    ELSE Num((last[1] * 100) \div (100 + pct[1]))

\* the previous-period columns of a row: kept when the table has both,
\* otherwise (over)written from the percent changes
with_prev(t, r) ==
    IF has_prev_data(t) THEN r
    ELSE [clicks_prev |-> _infer_prev(r.clicks_last, Get(r, "clicks_pct")),
          impr_prev   |-> _infer_prev(r.impr_last, Get(r, "impr_pct"))] @@ r

\* run_engine raises while it infers the previous period
engine_raises(t) ==
    /\ ~has_prev_data(t)
    /\ \E i \in 1..Len(t) :
          \/ infer_raises(t[i].clicks_last, Get(t[i], "clicks_pct"))
          \/ infer_raises(t[i].impr_last, Get(t[i], "impr_pct"))

HardIssues == {"missing_keyword", "missing_url", "missing_impressions", "missing_position"}

\* variant: the previous-period tag as soon as either cell is missing
data_issues_either_missing(r) ==
    (IF r.keyword = NaNStr \/ IsBlank(r.keyword) THEN <<"missing_keyword">> ELSE <<>>)
    \o (IF r.url = NaNStr \/ IsBlank(r.url) THEN <<"missing_url">> ELSE <<>>)
    \o (IF isna(r.impr_last) \/ r.impr_last[1] <= 0 THEN <<"missing_impressions">> ELSE <<>>)
    \o (IF isna(r.pos) THEN <<"missing_position">> ELSE <<>>)
    \o (IF isna(r.clicks_prev) \/ isna(Get(r, "clicks_pct"))
        THEN <<"missing_prev_data">> ELSE <<>>)

\* the issue tags of a row, in the order they are appended
data_issues(r) ==
    (IF r.keyword = NaNStr \/ IsBlank(r.keyword) THEN <<"missing_keyword">> ELSE <<>>)
    \o (IF r.url = NaNStr \/ IsBlank(r.url) THEN <<"missing_url">> ELSE <<>>)
    \o (IF isna(r.impr_last) \/ r.impr_last[1] <= 0 THEN <<"missing_impressions">> ELSE <<>>)
    \o (IF isna(r.pos) THEN <<"missing_position">> ELSE <<>>)
    \o (IF isna(r.clicks_prev) /\ isna(Get(r, "clicks_pct"))
        THEN <<"missing_prev_data">> ELSE <<>>)

\* variant: any tag at all makes the row unusable
data_ok_no_issue(r) == data_issues(r) = <<>>

data_ok(r) ==
    LET issues == data_issues(r)
    IN  {i \in 1..Len(issues) : issues[i] \in HardIssues} = {}

max2(a, b) == IF a >= b THEN a ELSE b

\* ((impr_last.fillna(0) + impr_prev.fillna(0)) / 2) / max(PERIOD_MONTHS, 1)
msv_est(r) ==
    Num(Frac(fillna(r.impr_last, 0) + fillna(r.impr_prev, 0), 2 * max2(PERIOD_MONTHS, 1)))

\* the same expression for a configured PERIOD_MONTHS of period tenths of a
\* month
msv_est_period(period, impr_last, impr_prev) ==
    Num(Frac((fillna(impr_last, 0) + fillna(impr_prev, 0)) * 10, 2 * max2(period, 10)))

\* clicks_last / msv_est.replace(0, NaN)
utilization(r) ==
    LET msv == msv_est(r)[1]
    IN  IF isna(r.clicks_last) \/ msv.num = 0 THEN NaN
        ELSE Num(Frac(r.clicks_last[1] * msv.den, msv.num))

traffic_gap(r) == Minus(expected_clicks_base(r), r.clicks_last)

clicks_drop(r) == clip_lower0(Minus(r.clicks_prev, r.clicks_last))

\* variant: the size of the change, whatever its direction
clicks_gain_abs(r) ==
    IF isna(r.clicks_last) \/ isna(r.clicks_prev) THEN NaN
    ELSE IF r.clicks_last[1] >= r.clicks_prev[1]
         THEN Num(r.clicks_last[1] - r.clicks_prev[1])
         ELSE Num(r.clicks_prev[1] - r.clicks_last[1])

clicks_gain(r) == clip_lower0(Minus(r.clicks_last, r.clicks_prev))

\* gap.fillna(0) * sqrt(momentum.fillna(0)).  The raw score is used only
\* through its rank, so it is held as its signed square sgn(x)*x*x, which
\* has the same order and the same ties as x = gap * sqrt(momentum).
raw_score(gap, momentum) ==
    LET g == fillna(gap, 0)
        m == fillna(momentum, 0)
    IN  Num((IF g < 0 THEN -1 ELSE 1) * g * g * m)

rescue_raw(r) == raw_score(traffic_gap(r), clicks_drop(r))

scale_raw(r) == raw_score(traffic_gap(r), clicks_gain(r))

\* Series.rank(pct=True): average rank among the non-NaN values divided by
\* their count; NaN stays NaN
rank_pct(raws, i) ==
    IF isna(raws[i]) THEN NaN
    ELSE LET valid == {j \in 1..Len(raws) : ~isna(raws[j])}
             less  == Cardinality({j \in valid : raws[j][1] < raws[i][1]})
             equal == Cardinality({j \in valid : raws[j][1] = raws[i][1]})
         IN  Num(Frac(2 * less + equal + 1, 2 * Cardinality(valid)))

\* variant: rank(pct=False), the rank itself scaled by 100
pct_score_plain_rank(raws, i) ==
    LET p == rank_pct(raws, i)
    IN  IF isna(p) THEN Frac(0, 1) ELSE Frac(100 * p[1].num, 2)

\* rank(pct=True).fillna(0) * 100
pct_score(raws, i) ==
    LET p == rank_pct(raws, i)
    IN  IF isna(p) THEN Frac(0, 1) ELSE Frac(100 * p[1].num, p[1].den)

score_ge(s, v) == s.num >= v * s.den

\* variant: the demand test tried before the drop-and-gap test
problem_type_demand_first(r) ==
    IF ~r.data_ok THEN "no_data"
    ELSE IF isna(r.clicks_prev) \/ isna(r.impr_prev) THEN "insufficient_signals"
    ELSE IF ~isna(r.impr_last) /\ r.impr_last[1] < r.impr_prev[1] THEN "demand_drop"
    ELSE IF gt(r.clicks_drop, 0) /\ gt(r.traffic_gap, 0) THEN "ctr_or_rank_drop"
    ELSE IF gt(r.clicks_gain, 0) THEN "growing"
    ELSE "stable"

\* row-wise problem_type(r) over the derived columns
problem_type(r) ==
    IF ~r.data_ok THEN "no_data"
    ELSE IF isna(r.clicks_prev) \/ isna(r.impr_prev) THEN "insufficient_signals"
    ELSE IF gt(r.clicks_drop, 0) /\ gt(r.traffic_gap, 0) THEN "ctr_or_rank_drop"
    ELSE IF ~isna(r.impr_last) /\ r.impr_last[1] < r.impr_prev[1] THEN "demand_drop"
    ELSE IF gt(r.clicks_gain, 0) THEN "growing"
    ELSE "stable"

engine_status(r) ==
    IF r.problem_type = "no_data" THEN "no_data"
    ELSE IF r.problem_type = "insufficient_signals" THEN "insufficient_signals"
    ELSE "ok"

\* the columns computed row by row before the table-wide scores
derived(r) ==
    LET gap  == traffic_gap(r)
        drop == clicks_drop(r)
        gain == clicks_gain(r)
    IN  [data_ok |-> data_ok(r), data_issues |-> data_issues(r),
         page_type |-> _page_type(r.url), query_type |-> _query_type(r.keyword),
         msv_est |-> msv_est(r), utilization |-> utilization(r),
         expected_clicks |-> expected_clicks_base(r), traffic_gap |-> gap,
         clicks_drop |-> drop, clicks_gain |-> gain,
         rescue_raw |-> raw_score(gap, drop), scale_raw |-> raw_score(gap, gain)] @@ r

\* row i with the table-wide percentile scores, given the derived table d
scored(d, i) ==
    LET rescue_raws == [j \in 1..Len(d) |-> d[j].rescue_raw] \o <<>>
        scale_raws  == [j \in 1..Len(d) |-> d[j].scale_raw] \o <<>>
    IN  [rescue_score |-> pct_score(rescue_raws, i),
         scale_score  |-> pct_score(scale_raws, i)] @@ d[i]

\* a scored row with problem_type and engine_status
classified(s) ==
    LET r == [problem_type |-> problem_type(s)] @@ s
    IN  [engine_status |-> engine_status(r)] @@ r

(***************************************************************************)
(* Decision contract: masks over the classified row, applied as            *)
(* successive df.loc[mask, ...] overwrites                                 *)
(***************************************************************************)
\* variant: only system pages and brand queries are excluded
hard_exclude_types_only(r) ==
    r.page_type = "system" \/ r.query_type = "brand"

hard_exclude(r) ==
    (r.data_ok # TRUE) \/ r.page_type = "system" \/ r.query_type = "brand"

eligible(r) == ~hard_exclude(r)

rescue_mask(r) ==
    /\ eligible(r)
    /\ score_ge(r.rescue_score, ACTION_PERCENTILE)
    /\ frac_ge(r.msv_est, MIN_MSV_FOR_ACTION)
    /\ ge(r.traffic_gap, MIN_GAP_FOR_ACTION)

scale_mask(r) ==
    /\ eligible(r)
    /\ score_ge(r.scale_score, ACTION_PERCENTILE)
    /\ frac_ge(r.msv_est, MIN_MSV_FOR_ACTION)
    /\ ~isna(r.utilization)
    /\ frac_lt_pct(r.utilization, 85)
    /\ ge(r.traffic_gap, MIN_GAP_FOR_ACTION)

expand_mask(r) ==
    /\ eligible(r)
    /\ r.problem_type = "growing"
    /\ frac_ge(r.msv_est, 500)
    /\ ~isna(r.utilization)
    /\ frac_lt_pct(r.utilization, 50)

promising_no_prev(r) ==
    /\ eligible(r)
    /\ r.engine_status = "insufficient_signals"
    /\ frac_ge(r.msv_est, 500)
    /\ ge(r.traffic_gap, MIN_GAP_FOR_ACTION)

Label(type, reason, analyze) ==
    [candidate_type |-> type, candidate_reason |-> reason, analyze_candidate |-> analyze]

\* variant: the overwrite sets the reason and leaves the type
Overwrite_reason_only(lbl, mask, new) ==
    IF mask THEN [lbl EXCEPT !.candidate_reason = new.candidate_reason] ELSE lbl

\* df.loc[mask, ...] = ... on one row
Overwrite(lbl, mask, new) == IF mask THEN new ELSE lbl

\* variant: Rescue applied after Scale
candidate_rescue_after_scale(r) ==
    LET l0 == Label("monitor", "default_monitor", FALSE)
        l1 == Overwrite(l0, hard_exclude(r), Label("ignore", "brand/system_or_bad_data", FALSE))
        l2 == Overwrite(l1, scale_mask(r), Label("scale", "momentum_with_headroom", TRUE))
        l3 == Overwrite(l2, rescue_mask(r), Label("rescue", "high_drop_high_potential_gap", TRUE))
        l4 == Overwrite(l3, expand_mask(r), Label("expand", "growing_far_from_potential", TRUE))
        l5 == Overwrite(l4, promising_no_prev(r), Label("monitor", "no_prev_but_high_gap_high_msv", TRUE))
    IN  l5

candidate(r) ==
    LET l0 == Label("monitor", "default_monitor", FALSE)
        l1 == Overwrite(l0, hard_exclude(r), Label("ignore", "brand/system_or_bad_data", FALSE))
        l2 == Overwrite(l1, rescue_mask(r), Label("rescue", "high_drop_high_potential_gap", TRUE))
        l3 == Overwrite(l2, scale_mask(r), Label("scale", "momentum_with_headroom", TRUE))
        l4 == Overwrite(l3, expand_mask(r), Label("expand", "growing_far_from_potential", TRUE))
        l5 == Overwrite(l4, promising_no_prev(r), Label("monitor", "no_prev_but_high_gap_high_msv", TRUE))
    IN  l5

(***************************************************************************)
(* run_engine stage by stage: each stage maps the data frame to the data   *)
(* frame with its columns added                                            *)
(***************************************************************************)
\* header rename, expected columns, parsing, previous period
stage_normalize(t) == [i \in 1..Len(t) |-> with_prev(t, t[i])] \o <<>>

stage_quality(df) ==
    [i \in 1..Len(df) |->
        [data_ok |-> data_ok(df[i]), data_issues |-> data_issues(df[i])] @@ df[i]] \o <<>>

\* types, demand estimate, utilization, expected clicks, gap, drop and gain
stage_metrics(df) ==
    [i \in 1..Len(df) |->
        LET r        == df[i]
            expected == expected_clicks_base(r)
        IN  [page_type |-> _page_type(r.url), query_type |-> _query_type(r.keyword),
             msv_est |-> msv_est(r), utilization |-> utilization(r),
             expected_clicks |-> expected,
             traffic_gap |-> Minus(expected, r.clicks_last),
             clicks_drop |-> clicks_drop(r), clicks_gain |-> clicks_gain(r)] @@ r] \o <<>>

\* raw scores from the gap, drop and gain columns, then their percentiles
stage_scores(df) ==
    LET d == [j \in 1..Len(df) |->
                 [rescue_raw |-> raw_score(df[j].traffic_gap, df[j].clicks_drop),
                  scale_raw  |-> raw_score(df[j].traffic_gap, df[j].clicks_gain)] @@ df[j]] \o <<>>
    IN  [i \in 1..Len(df) |-> scored(d, i)] \o <<>>

\* variant: the gap of a row without data is cleared while it is classified
stage_problem_type_clears_gap(df) ==
    [i \in 1..Len(df) |->
        IF problem_type(df[i]) = "no_data"
        THEN [problem_type |-> "no_data", traffic_gap |-> NaN] @@ df[i]
        ELSE [problem_type |-> problem_type(df[i])] @@ df[i]] \o <<>>

stage_problem_type(df) ==
    [i \in 1..Len(df) |-> [problem_type |-> problem_type(df[i])] @@ df[i]] \o <<>>

\* engine_status and the rule cascade
stage_cascade(df) ==
    [i \in 1..Len(df) |->
        LET c == [engine_status |-> engine_status(df[i])] @@ df[i]
        IN  candidate(c) @@ c] \o <<>>

\* the stages of run_engine, in the order of its code
EngineStages ==
    <<"normalization", "data_quality", "derived_metrics", "percentile_scores",
      "problem_type", "candidate_cascade">>

\* the columns a stage reads
StageReads(stage) ==
    CASE stage = "normalization" ->
            {"keyword", "url", "clicks_last", "impr_last", "pos", "clicks_prev",
             "impr_prev", "clicks_pct", "impr_pct"}
      [] stage = "data_quality" ->
            {"keyword", "url", "impr_last", "pos", "clicks_prev", "clicks_pct"}
      [] stage = "derived_metrics" ->
            {"keyword", "url", "impr_last", "impr_prev", "clicks_last", "clicks_prev", "pos"}
      [] stage = "percentile_scores" ->
            {"traffic_gap", "clicks_drop", "clicks_gain"}
      [] stage = "problem_type" ->
            {"data_ok", "clicks_prev", "impr_prev", "clicks_drop", "traffic_gap",
             "impr_last", "clicks_gain"}
      [] stage = "candidate_cascade" ->
            {"problem_type", "data_ok", "page_type", "query_type", "rescue_score",
             "scale_score", "msv_est", "utilization", "traffic_gap"}
      [] stage = "cannibalization_overlay" ->
            {"keyword", "url", "candidate_reason", "analyze_candidate"}

\* the table run_engine writes to engine_output.csv
run_engine(t) ==
    LET d == [j \in 1..Len(t) |-> derived(with_prev(t, t[j]))] \o <<>>
    IN  [i \in 1..Len(t) |->
            LET c == classified(scored(d, i)) IN candidate(c) @@ c] \o <<>>

(***************************************************************************)
(* detect_cannibalization                                                  *)
(***************************************************************************)
Rows(df) == 1..Len(df)

\* variant: count() instead of nunique(), rows counted instead of urls
count_urls(df, keyword) ==
    Cardinality({j \in Rows(df) : df[j].keyword = keyword /\ df[j].url # NaNStr})

\* df.groupby("keyword")["url"].nunique(): NaN keywords form no group and
\* NaN urls are not counted
nunique_urls(df, keyword) ==
    Cardinality({df[i].url : i \in {j \in Rows(df) : df[j].keyword = keyword /\ df[j].url # NaNStr}})

cannibal_keywords(df) ==
    {k \in {df[i].keyword : i \in Rows(df)} \ {NaNStr} : nunique_urls(df, k) > 1}

\* hash(keyword) of a str: keyed by the per-process hash seed.  The values
\* stand for the interpreter's keyed string hash: equal strings hash alike
\* within one process, and nothing else is promised.
str_hash(seed, s) ==
    CASE s = "form builder"  -> 7 + 3 * seed
      [] s = "survey maker"  -> 9007 + 1003 * seed
      [] s = "jotform login" -> 4242 + 17 * seed
      [] OTHER               -> 99 + seed

\* f"cannibal_{hash(keyword) % 10000}", held as <<n>>; "" is <<>>
cannibalization_group(seed, keyword) == Num(str_hash(seed, keyword) % HASH_MOD)

SelectUrls(df, keyword) ==
    LET F[n \in 0..Len(df)] ==
            IF n = 0 THEN <<>>
            ELSE IF df[n].keyword = keyword THEN Append(F[n - 1], df[n].url)
            ELSE F[n - 1]
    IN  F[Len(df)]

\* urls = df.loc[mask, "url"].tolist(); the " | "-joined string is held as
\* the list of its parts
cannibalization_urls(df, keyword) == SelectUrls(df, keyword)

\* " | ".join(urls) raises TypeError when a NaN url is among the rows of a
\* cannibalized keyword
join_raises(df) ==
    \E i \in Rows(df) : df[i].keyword \in cannibal_keywords(df) /\ df[i].url = NaNStr

\* variant: the reason of every cannibalized row is rewritten
overlay_row_any_reason(df, seed, i) ==
    LET r    == df[i]
        risk == r.keyword \in cannibal_keywords(df)
    IN  [cannibalization_risk  |-> risk,
         cannibalization_group |-> IF risk THEN cannibalization_group(seed, r.keyword) ELSE <<>>,
         cannibalization_urls  |-> IF risk THEN cannibalization_urls(df, r.keyword) ELSE <<>>,
         analyze_candidate     |-> IF risk THEN TRUE ELSE r.analyze_candidate,
         candidate_reason      |-> IF risk THEN "cannibalization_detected"
                                   ELSE r.candidate_reason] @@ r

overlay_row(df, seed, i) ==
    LET r    == df[i]
        risk == r.keyword \in cannibal_keywords(df)
    IN  [cannibalization_risk  |-> risk,
         cannibalization_group |-> IF risk THEN cannibalization_group(seed, r.keyword) ELSE <<>>,
         cannibalization_urls  |-> IF risk THEN cannibalization_urls(df, r.keyword) ELSE <<>>,
         analyze_candidate     |-> IF risk THEN TRUE ELSE r.analyze_candidate,
         candidate_reason      |-> IF risk /\ r.candidate_reason = "default_monitor"
                                   THEN "cannibalization_detected"
                                   ELSE r.candidate_reason] @@ r

detect_cannibalization(df, seed) == [i \in Rows(df) |-> overlay_row(df, seed, i)]

(***************************************************************************)
(* SERP enrichment and the recomputation of the traffic gaps (main.py,     *)
(* serp_enrichment.py)                                                     *)
(***************************************************************************)
\* the environment's SERP_LIMIT, enrichment enabled
SERP_LIMIT == 2

\* what a SERP lookup gives: an error, or the sorted features of the page
SerpResults ==
    { <<"error">>,
      <<>>,
      <<"featured_snippet">>,
      <<"featured_snippet", "shopping">>,
      <<"featured_snippet", "paa", "video">>,
      <<"knowledge_panel">> }

\* the first SERP_LIMIT rows with analyze_candidate
serp_candidates(df) ==
    LET cand == {i \in Rows(df) : df[i].analyze_candidate = TRUE}
    IN  {i \in cand : Cardinality({j \in cand : j < i}) < SERP_LIMIT}

\* ",".join(sorted(features)); no feature is the empty text
serp_features_text(features) == IF features = <<>> THEN Cell(<<"">>) ELSE Cell(features)

\* the rows run_serp_weighted writes, lookup[i] the result for candidate i
run_serp_weighted(df, lookup) ==
    [i \in Rows(df) |->
        LET ok == i \in serp_candidates(df) /\ lookup[i] # <<"error">>
        IN  [serp_status |-> IF ok THEN "ok"
                             ELSE IF i \in serp_candidates(df) THEN "error" ELSE "skipped",
             serp_features |-> IF ok THEN serp_features_text(lookup[i]) ELSE Cell(<<"">>),
             serp_data_available |-> ok] @@ df[i]] \o <<>>

\* an empty text cell of a csv file is read back as null
read_csv_text(cell) == IF cell = Cell(<<"">>) THEN NaN ELSE cell

\* impr_last * ctr, exact for the modelled impressions and features
calc_serp_adjusted(row) ==
    IF isna(row.pos) \/ isna(row.impr_last) THEN NaN
    ELSE Num((row.impr_last[1]
              * _expected_ctr_with_serp(row.pos, read_csv_text(row.serp_features))[1])
             \div 10000)

\* df.loc[mask, ...] of update_traffic_gaps_with_serp on one row
update_row(row) ==
    IF row.serp_data_available
    THEN LET adjusted == calc_serp_adjusted(row)
         IN  [expected_clicks_serp_adjusted |-> adjusted,
              traffic_gap |-> Minus(adjusted, row.clicks_last)] @@ row
    ELSE [expected_clicks_serp_adjusted |-> NaN] @@ row

\* the table is left as it is when no row has SERP data
update_traffic_gaps_with_serp(df) ==
    IF \A i \in Rows(df) : ~df[i].serp_data_available THEN df
    ELSE [i \in Rows(df) |-> update_row(df[i])] \o <<>>

(***************************************************************************)
(* Input tables                                                            *)
(***************************************************************************)
Row(k, u, cl, il, p, cp, ip) ==
    [keyword |-> k, url |-> u, clicks_last |-> cl, impr_last |-> il, pos |-> p,
     clicks_prev |-> cp, impr_prev |-> ip]

ClickValues == {NaN, Num(50), Num(120)}

ImprLastValues == {NaN, Num(1000), Num(4000)}

ImprPrevValues == {NaN, Num(800), Num(3200)}

PosValues == {NaN, Num(20), Num(120)}

Identities ==
    { <<"form builder", "https://f.io/features/a">>,
      <<"jotform login", "https://f.io/features/a">>,
      <<"form builder", "https://f.io/blog/app-forms">> }

\* the rows under scrutiny: every combination of the metric values
FocusRows ==
    { Row(id[1], id[2], cl, il, p, cp, ip) :
        id \in Identities, cl \in ClickValues, il \in ImprLastValues,
        p \in PosValues, cp \in ClickValues, ip \in ImprPrevValues }

\* the rest of the table: rows whose raw scores are positive, zero and
\* negative, so that the percentile of the first row takes every value; the
\* last one shares its keyword with first rows
ContextRows ==
    { Row("survey maker", "https://f.io/pricing", Num(50), Num(1000), Num(20), Num(120), Num(3200)),
      Row("survey maker", "https://f.io/pricing", Num(120), Num(4000), Num(20), Num(50), Num(3200)),
      Row("survey maker", "https://f.io/pricing", Num(50), Num(1000), Num(120), Num(120), Num(3200)),
      Row("survey maker", "https://f.io/pricing", Num(120), Num(1000), Num(120), Num(50), Num(3200)),
      Row("form builder", "https://f.io/pricing", Num(50), Num(4000), Num(20), NaN, NaN) }

SeqsUpTo(S, n) == UNION {[1..m -> S] : m \in 0..n}

\* a table has at least one row
TablesUpTo(S, n) == UNION {[1..m -> S] : m \in 1..n}

EngineTables ==
    { <<f>> \o rest : f \in FocusRows, rest \in SeqsUpTo(ContextRows, MaxRows - 1) }

\* rows for the cannibalization pass: every pairing of a keyword cell with a
\* url cell on a low-demand row, and rows that the cascade labels otherwise
LowDemand(k, u) == Row(k, u, Num(50), Num(1000), Num(20), Num(50), NaN)

GroupRows ==
    { LowDemand(k, u) :
        k \in {NaNStr, "form builder", "jotform login"},
        u \in {NaNStr, "https://f.io/features/a", "https://f.io/templates/b"} }
    \cup
    { Row("form builder", "https://f.io/features/a", Num(50), Num(1000), Num(20), Num(120), Num(3200)),
      Row("jotform login", "https://f.io/features/a", Num(50), Num(1000), Num(20), Num(120), Num(3200)),
      Row("form builder", "https://f.io/templates/b", Num(50), NaN, Num(20), Num(120), Num(3200)),
      LowDemand("form builder", "https://f.io/blog/app-forms") }

GroupTables == TablesUpTo(GroupRows, MaxGroupRows)

\* pre-processed tables whose first row takes every combination of missing,
\* blank, zero and present cells
QualityRows ==
    { Row(k, u, Num(50), il, p, cp, Num(800)) :
        k \in {NaNStr, " ", "form builder"},
        u \in {NaNStr, " ", "https://f.io/features/a"},
        il \in {NaN, Num(0), Num(1000)},
        p \in {NaN, Num(20)},
        cp \in {NaN, Num(120)} }

QualityContext ==
    { Row("survey maker", "https://f.io/pricing", Num(120), Num(4000), Num(20), Num(50), Num(3200)),
      Row("survey maker", NaNStr, Num(50), Num(1000), Num(20), NaN, NaN) }

\* a row of a raw export: percent changes in place of the previous period
RawRow(k, u, cl, il, p, cpct, ipct) ==
    [keyword |-> k, url |-> u, clicks_last |-> cl, impr_last |-> il, pos |-> p,
     clicks_pct |-> cpct, impr_pct |-> ipct]

\* -100 is the cell "-100%", -50 is "-50%", 25 is "25%"
RawRows ==
    { RawRow("form builder", "https://f.io/features/a", cl, il, Num(20), cpct, ipct) :
        cl \in {NaN, Num(50)}, il \in {NaN, Num(1000)},
        cpct \in {NaN, Num(-100), Num(-50), Num(25)},
        ipct \in {NaN, Num(-50)} }

RawContext ==
    { RawRow("survey maker", "https://f.io/pricing", Num(120), Num(4000), Num(20), Num(25), Num(-50)) }

\* a row of a table with a clicks_prev column and no impr_prev column
HalfRow(k, u, cl, il, p, cp) ==
    [keyword |-> k, url |-> u, clicks_last |-> cl, impr_last |-> il, pos |-> p,
     clicks_prev |-> cp]

HalfRows ==
    { HalfRow("form builder", "https://f.io/features/a", cl, Num(1000), Num(20), cp) :
        cl \in {NaN, Num(50)}, cp \in {NaN, Num(50), Num(120)} }

\* a row of a table with neither previous-period nor percent-change columns
BareRow(k, u, cl, il, p) ==
    [keyword |-> k, url |-> u, clicks_last |-> cl, impr_last |-> il, pos |-> p]

BareRows ==
    { BareRow("form builder", u, Num(50), il, Num(20)) :
        u \in {NaNStr, "https://f.io/features/a"}, il \in {NaN, Num(1000)} }

InputTables ==
    { <<f>> \o rest : f \in QualityRows, rest \in SeqsUpTo(QualityContext, MaxInputRows - 1) }
    \cup
    { <<f>> \o rest : f \in RawRows, rest \in SeqsUpTo(RawContext, MaxInputRows - 1) }
    \cup
    { <<f>> \o rest : f \in BareRows, rest \in SeqsUpTo(BareRows, MaxInputRows - 1) }
    \cup
    { <<f>> \o rest : f \in HalfRows, rest \in SeqsUpTo(HalfRows, MaxInputRows - 1) }

(***************************************************************************)
(* State machine of run_engine_with_cannibalization                        *)
(***************************************************************************)
NoTable == <<"none">>

TypeOK ==
    /\ pc \in {"start", "engine_raised", "engine_done", "done", "failed",
              "call", "returned", "attempting", "sleeping", "raised",
              "serp_done", "gaps_updated", "normalized", "gated", "derived",
              "scored", "classified"}
    /\ hashseed \in 0..MaxSeed
    /\ run \in 1..MaxRuns

InitWith(tables) ==
    /\ input \in tables
    /\ loaded = NoTable
    /\ file = NoTable
    /\ pc = "start"
    /\ hashseed = 0
    /\ prev_file = NoTable
    /\ run = 1
    /\ serp_file = NoTable
    /\ stages = <<>>
    /\ arg = NoTable
    /\ result = NoTable

Init == InitWith(EngineTables)

InitGroups == InitWith(GroupTables)

InitInputs == InitWith(InputTables)

\* first rows on which the rules act, followed by context rows
SerpRows ==
    { Row("form builder", "https://f.io/features/a", cl, il, Num(20), cp, Num(3200)) :
        cl \in {Num(50), Num(120)}, il \in {Num(1000), Num(4000)},
        cp \in {Num(50), Num(120)} }

SerpTables ==
    { <<f>> \o rest : f \in SerpRows, rest \in SeqsUpTo(ContextRows, MaxRows - 1) }

InitSerp == InitWith(SerpTables)

\* tables of either header set and tables with shared keywords
InitStages == InitWith(InputTables \cup TablesUpTo(GroupRows, MaxInputRows))

\* two keywords, each on two urls
CollideRows ==
    { LowDemand(k, u) :
        k \in {"form builder", "survey maker"},
        u \in {"https://f.io/features/a", "https://f.io/templates/b"} }

CollideTables == TablesUpTo(CollideRows, MaxCollideRows)

InitCollide == InitWith(CollideTables)

\* a call of a helper that has not returned yet
Call(fn, args) == [fn |-> fn, args |-> args]

CellChars == {"1", "5", ".", ",", "%", " ", "-", "n"}

Text(str) ==
    CASE str = "1.234,56" -> <<"1", ".", "2", "3", "4", ",", "5", "6">>
      [] str = "1234.56"  -> <<"1", "2", "3", "4", ".", "5", "6">>
      [] str = "1,234.56" -> <<"1", ",", "2", "3", "4", ".", "5", "6">>
      [] str = "n/a"      -> <<"n", "/", "a">>
      [] str = "177.84"   -> <<"1", "7", "7", ".", "8", "4">>
      [] str = "0.12"     -> <<"0", ".", "1", "2">>
      [] str = "-5.01"    -> <<"-", "5", ".", "0", "1">>
      [] str = " 12,5 %"  -> <<" ", "1", "2", ",", "5", " ", "%">>
      [] str = "1 5,5"    -> <<"1", " ", "5", ",", "5">>

NamedCells ==
    { Cell(Text(str)) : str \in {"1.234,56", "1234.56", "1,234.56", "n/a", "177.84",
                                 "0.12", "-5.01", " 12,5 %", "1 5,5"} }

\* a null cell, every text of up to MaxCellLen characters, the named texts
Cells ==
    {NaN} \cup NamedCells \cup { Cell(t) : t \in SeqsUpTo(CellChars, MaxCellLen) }

Positions == {NaN} \cup { Num(p) : p \in 0..MaxPosition }

FeaturePieces ==
    {"featured_snippet", " PAA", "Video", "images", "shopping", "knowledge_panel", "", " "}

FeatureTexts == {NaN} \cup { Cell(toks) : toks \in TablesUpTo(FeaturePieces, MaxFeatures) }

SerpPositions == {NaN, Num(10), Num(35), Num(120)}

\* configured period lengths, in tenths of a month: 0.5, 1, 1.5 and 3
Periods == {5, 10, 15, 30}

Calls ==
    { Call("_parse_number", <<x>>) : x \in Cells }
    \cup { Call("_parse_pct", <<x>>) : x \in Cells }
    \cup { Call("_expected_ctr", <<pos>>) : pos \in Positions }
    \cup { Call("_expected_ctr_with_serp", <<pos, f>>) : pos \in SerpPositions, f \in FeatureTexts }
    \cup { Call("msv_est", <<p, il, ip>>) :
              p \in Periods, il \in ImprLastValues, ip \in ImprPrevValues }

\* what one invocation of func does: return, or raise an exception of a type
Outcomes ==
    {"ok", "APIError", "APITimeoutError", "RateLimitError", "APIConnectionError",
     "ValueError", "KeyboardInterrupt"}

\* retry_if_exception_type((APIError, APITimeoutError, RateLimitError,
\* APIConnectionError))
Retryable == {"APIError", "APITimeoutError", "RateLimitError", "APIConnectionError"}

\* variant: one attempt more before giving up
stop_after_attempt_late(n, attempt_number) == attempt_number > n

\* stop_after_attempt(n) on the number of attempts made so far
stop_after_attempt(n, attempt_number) == attempt_number >= n

\* retry_call(func, config=RetryConfig(max_retries)) before its first
\* attempt: attempts is the outcome of each invocation of func so far
InitRetry ==
    /\ pc = "attempting"
    /\ \E max_retries \in 0..MaxRetries : arg = Call("retry_call", <<max_retries>>)
    /\ result = [attempts |-> <<>>, attempt_counter |-> 0, value |-> 0, exception |-> "none"]
    /\ input = NoTable
    /\ loaded = NoTable
    /\ file = NoTable
    /\ hashseed = 0
    /\ prev_file = NoTable
    /\ run = 1
    /\ serp_file = NoTable
    /\ stages = <<>>

InitHelpers ==
    /\ pc = "call"
    /\ arg \in Calls
    /\ result = NoTable
    /\ input = NoTable
    /\ loaded = NoTable
    /\ file = NoTable
    /\ hashseed = 0
    /\ prev_file = NoTable
    /\ run = 1
    /\ serp_file = NoTable
    /\ stages = <<>>

\* run_engine(): read the input, compute every column, write the output file
\* or raise before anything is written
RunEngine ==
    /\ pc = "start"
    /\ IF engine_raises(input)
       THEN /\ pc' = "engine_raised"
            /\ file' = file
            /\ stages' = <<"normalization">>
       ELSE /\ pc' = "engine_done"
            /\ file' = run_engine(input)
            /\ stages' = EngineStages
    /\ UNCHANGED <<serp_file, input, loaded, hashseed, prev_file, run, arg, result>>

\* the rest of run_engine_with_cannibalization(): read the file back, run
\* detect_cannibalization in a process whose string hash seed is not fixed,
\* and write the file again unless the pass raised
RunCannibalization ==
    /\ pc = "engine_done"
    /\ loaded' = file
    /\ \E seed \in 1..MaxSeed :
          /\ hashseed' = seed
          /\ IF join_raises(file)
             THEN /\ pc' = "failed"
                  /\ file' = file
             ELSE /\ pc' = "done"
                  /\ file' = detect_cannibalization(file, seed)
    /\ stages' = Append(stages, "cannibalization_overlay")
    /\ UNCHANGED <<serp_file, input, prev_file, run, arg, result>>

\* the engine is started again, in a new process, on the same input file;
\* the output of the finished run is remembered for comparison
NewRun ==
    /\ pc \in {"done", "failed", "engine_raised"}
    /\ run < MaxRuns
    /\ prev_file' = file
    /\ run' = run + 1
    /\ pc' = "start"
    /\ loaded' = NoTable
    /\ hashseed' = 0
    /\ stages' = <<>>
    /\ UNCHANGED <<serp_file, input, file, arg, result>>

CallParseNumber ==
    /\ pc = "call"
    /\ arg.fn = "_parse_number"
    /\ result' = _parse_number(arg.args[1])
    /\ pc' = "returned"
    /\ UNCHANGED <<serp_file, stages, input, loaded, file, hashseed, prev_file, run, arg>>

CallParsePct ==
    /\ pc = "call"
    /\ arg.fn = "_parse_pct"
    /\ result' = _parse_pct(arg.args[1])
    /\ pc' = "returned"
    /\ UNCHANGED <<serp_file, stages, input, loaded, file, hashseed, prev_file, run, arg>>

CallExpectedCtr ==
    /\ pc = "call"
    /\ arg.fn = "_expected_ctr"
    /\ result' = _expected_ctr(arg.args[1])
    /\ pc' = "returned"
    /\ UNCHANGED <<serp_file, stages, input, loaded, file, hashseed, prev_file, run, arg>>

CallExpectedCtrWithSerp ==
    /\ pc = "call"
    /\ arg.fn = "_expected_ctr_with_serp"
    /\ result' = _expected_ctr_with_serp(arg.args[1], arg.args[2])
    /\ pc' = "returned"
    /\ UNCHANGED <<serp_file, stages, input, loaded, file, hashseed, prev_file, run, arg>>

CallMsvEst ==
    /\ pc = "call"
    /\ arg.fn = "msv_est"
    /\ result' = msv_est_period(arg.args[1], arg.args[2], arg.args[3])
    /\ pc' = "returned"
    /\ UNCHANGED <<serp_file, stages, input, loaded, file, hashseed, prev_file, run, arg>>

\* one invocation of _wrapped and what the retry loop makes of its outcome;
\* a returned value is identified by the number of the attempt returning it
Attempt ==
    /\ pc = "attempting"
    /\ \E o \in Outcomes :
          LET attempts == Append(result.attempts, o)
          IN  IF o = "ok"
              THEN /\ pc' = "returned"
                   /\ result' = [result EXCEPT !.attempts = attempts, !.value = Len(attempts)]
              ELSE IF o \notin Retryable
                      \/ stop_after_attempt(arg.args[1] + 1, Len(attempts))
              THEN /\ pc' = "raised"
                   /\ result' = [result EXCEPT !.attempts = attempts, !.exception = o]
              ELSE /\ pc' = "sleeping"
                   /\ result' = [result EXCEPT !.attempts = attempts]
    /\ UNCHANGED <<serp_file, stages, input, loaded, file, hashseed, prev_file, run, arg>>

\* custom_before_sleep, then the wait before the next attempt
BeforeSleep ==
    /\ pc = "sleeping"
    /\ result' = [result EXCEPT !.attempt_counter = @ + 1]
    /\ pc' = "attempting"
    /\ UNCHANGED <<serp_file, stages, input, loaded, file, hashseed, prev_file, run, arg>>

\* STEP 2 of main: run_serp_weighted reads engine_output.csv and writes
\* serp_output.csv
RunSerp ==
    /\ pc = "done"
    /\ \E lookup \in [serp_candidates(file) -> SerpResults] :
          serp_file' = run_serp_weighted(file, lookup)
    /\ pc' = "serp_done"
    /\ UNCHANGED <<input, loaded, file, hashseed, prev_file, run, arg, result, stages>>

\* STEP 2.5 of main
UpdateTrafficGaps ==
    /\ pc = "serp_done"
    /\ serp_file' = update_traffic_gaps_with_serp(serp_file)
    /\ pc' = "gaps_updated"
    /\ UNCHANGED <<input, loaded, file, hashseed, prev_file, run, arg, result, stages>>

\* run_engine one stage at a time, on the data frame in memory
StageNormalize ==
    /\ pc = "start"
    /\ stages' = Append(stages, "normalization")
    /\ IF engine_raises(input)
       THEN /\ pc' = "engine_raised"
            /\ loaded' = loaded
       ELSE /\ pc' = "normalized"
            /\ loaded' = stage_normalize(input)
    /\ UNCHANGED <<serp_file, input, file, hashseed, prev_file, run, arg, result>>

\* the data-quality gate
StageQuality ==
    /\ pc = "normalized"
    /\ loaded' = stage_quality(loaded)
    /\ pc' = "gated"
    /\ stages' = Append(stages, "data_quality")
    /\ UNCHANGED <<serp_file, input, file, hashseed, prev_file, run, arg, result>>

\* types and derived metrics
StageMetrics ==
    /\ pc = "gated"
    /\ loaded' = stage_metrics(loaded)
    /\ pc' = "derived"
    /\ stages' = Append(stages, "derived_metrics")
    /\ UNCHANGED <<serp_file, input, file, hashseed, prev_file, run, arg, result>>

\* raw and percentile scores
StageScores ==
    /\ pc = "derived"
    /\ loaded' = stage_scores(loaded)
    /\ pc' = "scored"
    /\ stages' = Append(stages, "percentile_scores")
    /\ UNCHANGED <<serp_file, input, file, hashseed, prev_file, run, arg, result>>

\* problem type
StageProblemType ==
    /\ pc = "scored"
    /\ loaded' = stage_problem_type(loaded)
    /\ pc' = "classified"
    /\ stages' = Append(stages, "problem_type")
    /\ UNCHANGED <<serp_file, input, file, hashseed, prev_file, run, arg, result>>

\* the rule cascade, then to_csv
StageCascade ==
    /\ pc = "classified"
    /\ loaded' = stage_cascade(loaded)
    /\ file' = stage_cascade(loaded)
    /\ pc' = "engine_done"
    /\ stages' = Append(stages, "candidate_cascade")
    /\ UNCHANGED <<serp_file, input, hashseed, prev_file, run, arg, result>>

Next == RunEngine \/ RunCannibalization

NextStages ==
    \/ StageNormalize
    \/ StageQuality
    \/ StageMetrics
    \/ StageScores
    \/ StageProblemType
    \/ StageCascade
    \/ RunCannibalization

NextSerp == RunEngine \/ RunCannibalization \/ RunSerp \/ UpdateTrafficGaps

NextRetry == Attempt \/ BeforeSleep

NextHelpers ==
    \/ CallParseNumber
    \/ CallParsePct
    \/ CallExpectedCtr
    \/ CallExpectedCtrWithSerp
    \/ CallMsvEst

NextRerun == RunEngine \/ RunCannibalization \/ NewRun

\* one run over tables that vary the metrics of a row
Spec == Init /\ [][Next]_vars

\* one run over tables that vary the keyword and url cells
SpecGroups == InitGroups /\ [][Next]_vars

\* two runs on the same input
SpecRerun == InitGroups /\ [][NextRerun]_vars

\* one run over a table of either header set
SpecInputs == InitInputs /\ [][Next]_vars

\* one run over tables with two keywords on two urls each
SpecCollide == InitCollide /\ [][Next]_vars

\* one run, stage by stage
SpecStages == InitStages /\ [][NextStages]_vars

\* the pipeline up to the recomputed traffic gaps
SpecSerp == InitSerp /\ [][NextSerp]_vars

\* one call of retry_call
SpecRetry == InitRetry /\ [][NextRetry]_vars

\* the same, the retry loop never stalling between two steps
SpecRetryFair == SpecRetry /\ WF_vars(NextRetry)

\* one call of a parsing or click-through helper
SpecHelpers == InitHelpers /\ [][NextHelpers]_vars

(***************************************************************************)
(* Properties                                                              *)
(***************************************************************************)
EngineDone == pc = "engine_done"

OverlayDone == pc = "done"

HardExcluded(r) == r.data_ok # TRUE \/ r.page_type = "system" \/ r.query_type = "brand"

\* C1: in the final table, after the cannibalization overlay, every row
\* with page_type system or query_type brand has candidate_type ignore and
\* analyze_candidate false.
C1_HardExcludeFinal ==
    OverlayDone =>
        \A i \in Rows(file) :
            (file[i].page_type = "system" \/ file[i].query_type = "brand")
                => (file[i].candidate_type = "ignore" /\ file[i].analyze_candidate = FALSE)

\* C2: in the final table of run_engine_with_cannibalization every row with
\* analyze_candidate true has data_ok true.
C2_AnalyzeImpliesDataOk ==
    OverlayDone =>
        \A i \in Rows(file) : file[i].analyze_candidate = TRUE => file[i].data_ok = TRUE

\* the rule criteria of the cascade, read off the columns of an output row
RescueRule(r) ==
    /\ score_ge(r.rescue_score, ACTION_PERCENTILE)
    /\ frac_ge(r.msv_est, 300)
    /\ ge(r.traffic_gap, 30)

ScaleRule(r) ==
    /\ score_ge(r.scale_score, ACTION_PERCENTILE)
    /\ frac_ge(r.msv_est, 300)
    /\ frac_lt_pct(r.utilization, 85)
    /\ ge(r.traffic_gap, 30)

ExpandRule(r) ==
    /\ r.problem_type = "growing"
    /\ frac_ge(r.msv_est, 500)
    /\ frac_lt_pct(r.utilization, 50)

PromisingRule(r) ==
    /\ r.problem_type = "insufficient_signals"
    /\ frac_ge(r.msv_est, 500)
    /\ ge(r.traffic_gap, 30)

LastMatch(r) ==
    IF HardExcluded(r) THEN <<"ignore", "brand/system_or_bad_data">>
    ELSE IF PromisingRule(r) THEN <<"monitor", "no_prev_but_high_gap_high_msv">>
    ELSE IF ExpandRule(r) THEN <<"expand", "growing_far_from_potential">>
    ELSE IF ScaleRule(r) THEN <<"scale", "momentum_with_headroom">>
    ELSE IF RescueRule(r) THEN <<"rescue", "high_drop_high_potential_gap">>
    ELSE <<"monitor", "default_monitor">>

\* C3: after run_engine every row carries the type and reason of the last
\* rule it matches in the order Rescue, Scale, Expand, Promising-no-history
\* (monitor/default_monitor when it matches none); a hard-excluded row keeps
\* ignore/brand/system_or_bad_data whatever rules it matches.
C3_LastMatchWins ==
    EngineDone =>
        \A i \in Rows(file) :
            <<file[i].candidate_type, file[i].candidate_reason>> = LastMatch(file[i])

\* a row that is not hard-excluded matches Rescue and Scale and no later
\* rule, and ends as scale; a hard-excluded row of the same table meets the
\* Rescue criteria and stays ignore
C3_Witness ==
    /\ EngineDone
    /\ \E i \in Rows(file) :
          /\ ~HardExcluded(file[i])
          /\ RescueRule(file[i]) /\ ScaleRule(file[i])
          /\ ~ExpandRule(file[i]) /\ ~PromisingRule(file[i])
          /\ file[i].candidate_type = "scale"
    /\ \E j \in Rows(file) :
          /\ HardExcluded(file[j])
          /\ RescueRule(file[j])
          /\ file[j].candidate_type = "ignore"

\* C4: problem_type is the first match of the ordered tests no_data,
\* insufficient_signals, ctr_or_rank_drop, demand_drop, growing, stable; a
\* data_ok row with prior-period data, clicks_drop > 0 and traffic_gap > 0 is
\* ctr_or_rank_drop also when impr_last < impr_prev.
C4_ProblemTypeFirstMatch ==
    EngineDone =>
        \A i \in Rows(file) :
            LET r       == file[i]
                noData  == r.data_ok # TRUE
                noPrev  == isna(r.clicks_prev) \/ isna(r.impr_prev)
                dropGap == gt(r.clicks_drop, 0) /\ gt(r.traffic_gap, 0)
                demand  == ~isna(r.impr_last) /\ ~isna(r.impr_prev) /\ r.impr_last[1] < r.impr_prev[1]
                gaining == gt(r.clicks_gain, 0)
            IN  /\ noData => r.problem_type = "no_data"
                /\ (~noData /\ noPrev) => r.problem_type = "insufficient_signals"
                /\ (~noData /\ ~noPrev /\ dropGap) => r.problem_type = "ctr_or_rank_drop"
                /\ (~noData /\ ~noPrev /\ ~dropGap /\ demand) => r.problem_type = "demand_drop"
                /\ (~noData /\ ~noPrev /\ ~dropGap /\ ~demand /\ gaining) => r.problem_type = "growing"
                /\ (~noData /\ ~noPrev /\ ~dropGap /\ ~demand /\ ~gaining) => r.problem_type = "stable"

\* a row with a drop, a gap and fallen impressions, diagnosed ctr_or_rank_drop
C4_Witness ==
    /\ EngineDone
    /\ \E i \in Rows(file) :
          /\ file[i].data_ok = TRUE
          /\ gt(file[i].clicks_drop, 0) /\ gt(file[i].traffic_gap, 0)
          /\ ~isna(file[i].impr_prev) /\ file[i].impr_last[1] < file[i].impr_prev[1]
          /\ file[i].problem_type = "ctr_or_rank_drop"

\* the distinct urls the table maps the keyword of row i to
UrlsOfKeyword(t, i) ==
    IF t[i].keyword = NaNStr THEN {}
    ELSE {t[j].url : j \in {n \in Rows(t) : t[n].keyword = t[i].keyword}} \ {NaNStr}

\* C5: after detect_cannibalization a row has cannibalization_risk true
\* exactly when its keyword is mapped to at least 2 distinct urls, and all
\* rows of a cannibalized keyword carry the same non-empty group.
C5_RiskIffTwoUrls ==
    OverlayDone =>
        /\ \A i \in Rows(file) :
              file[i].cannibalization_risk = (Cardinality(UrlsOfKeyword(file, i)) >= 2)
        /\ \A i, j \in Rows(file) :
              (file[i].cannibalization_risk /\ file[j].keyword = file[i].keyword)
                  => /\ file[i].cannibalization_group # <<>>
                     /\ file[j].cannibalization_group = file[i].cannibalization_group

\* two rows of one keyword with different urls are both flagged, next to a
\* row whose keyword has a single url and is not flagged
C5_Witness ==
    /\ OverlayDone
    /\ \E i, j, k \in Rows(file) :
          /\ file[i].keyword = file[j].keyword /\ file[i].url # file[j].url
          /\ file[i].cannibalization_risk /\ file[j].cannibalization_risk
          /\ ~file[k].cannibalization_risk /\ file[k].keyword # NaNStr

ToSet(q) == {q[n] : n \in 1..Len(q)}

\* C6: every row of a cannibalized keyword carries the same peer list, which
\* lists each distinct competing url of the keyword exactly once, also when
\* a keyword/url pair occurs in more than one row.
C6_PeersDistinctOnce ==
    OverlayDone =>
        \A i \in Rows(file) :
            file[i].cannibalization_risk =>
                LET peers == file[i].cannibalization_urls
                IN  /\ ToSet(peers) = UrlsOfKeyword(file, i)
                    /\ Len(peers) = Cardinality(UrlsOfKeyword(file, i))
                    /\ \A j \in Rows(file) :
                          file[j].keyword = file[i].keyword => file[j].cannibalization_urls = peers

\* C7: detect_cannibalization leaves candidate_type unchanged on every row;
\* on a row with cannibalization_risk it sets analyze_candidate and rewrites
\* the reason to cannibalization_detected only when it was default_monitor;
\* on a row without risk it leaves analyze_candidate and the reason unchanged.
C7_OverlayFrame ==
    OverlayDone =>
        /\ Len(file) = Len(loaded)
        /\ \A i \in Rows(file) :
              /\ file[i].candidate_type = loaded[i].candidate_type
              /\ file[i].cannibalization_risk =>
                    /\ file[i].analyze_candidate = TRUE
                    /\ file[i].candidate_reason =
                          IF loaded[i].candidate_reason = "default_monitor"
                          THEN "cannibalization_detected"
                          ELSE loaded[i].candidate_reason
              /\ ~file[i].cannibalization_risk =>
                    /\ file[i].analyze_candidate = loaded[i].analyze_candidate
                    /\ file[i].candidate_reason = loaded[i].candidate_reason

\* one cannibalized row had the default reason and was rewritten, another
\* had a reason of its own and kept it
C7_Witness ==
    /\ OverlayDone
    /\ \E i, j \in Rows(file) :
          /\ file[i].cannibalization_risk /\ file[j].cannibalization_risk
          /\ loaded[i].candidate_reason = "default_monitor"
          /\ file[i].candidate_reason = "cannibalization_detected"
          /\ loaded[j].candidate_reason # "default_monitor"
          /\ file[j].candidate_reason = loaded[j].candidate_reason

\* C8: a second run of the engine, in a new process, on the same input
\* leaves the same output as the first run, group identifiers included.
C8_RerunSameOutput ==
    (run > 1 /\ pc \in {"done", "failed"}) => file = prev_file

ScoreInRange(sc) == sc.den > 0 /\ 0 <= sc.num /\ sc.num <= 100 * sc.den

\* C9: for every row of every table rescue_score and scale_score are defined
\* and lie in [0,100], also when traffic_gap, clicks_prev or clicks_last is
\* null.
C9_ScoresInRange ==
    EngineDone =>
        \A i \in Rows(file) :
            ScoreInRange(file[i].rescue_score) /\ ScoreInRange(file[i].scale_score)

\* a table of two rows, one of them without traffic_gap and clicks_prev
C9_Witness ==
    /\ EngineDone
    /\ Len(file) >= 2
    /\ \E i \in Rows(file) :
          /\ isna(file[i].traffic_gap) /\ isna(file[i].clicks_prev)
          /\ ScoreInRange(file[i].rescue_score) /\ ScoreInRange(file[i].scale_score)

\* C10: a row whose raw rescue score cannot be computed (traffic_gap or
\* clicks_drop null) has rescue_score 0, and a row whose raw scale score
\* cannot be computed (traffic_gap or clicks_gain null) has scale_score 0.
C10_MissingRawRanksZero ==
    EngineDone =>
        \A i \in Rows(file) :
            /\ (isna(file[i].traffic_gap) \/ isna(file[i].clicks_drop))
                  => file[i].rescue_score.num = 0
            /\ (isna(file[i].traffic_gap) \/ isna(file[i].clicks_gain))
                  => file[i].scale_score.num = 0

\* an output table has been written by run_engine
Written == pc \in {"engine_done", "done", "failed"}

Tags(r) == {r.data_issues[n] : n \in 1..Len(r.data_issues)}

\* a text cell that is null or blank
MissingText(s) == s = NaNStr \/ s \in {"", " "}

\* C11: data_ok is true exactly when the keyword is neither null nor blank,
\* the url is neither null nor blank, the impressions are neither null nor
\* <= 0 and the position is not null; a row whose only tag is
\* missing_prev_data has data_ok true.
C11_DataOkIffNoHardIssue ==
    Written =>
        \A i \in 1..Len(file) :
            /\ file[i].data_ok =
                  ~ \/ MissingText(input[i].keyword)
                    \/ MissingText(input[i].url)
                    \/ input[i].impr_last = NaN
                    \/ (input[i].impr_last # NaN /\ input[i].impr_last[1] <= 0)
                    \/ input[i].pos = NaN
            /\ (Tags(file[i]) = {"missing_prev_data"} => file[i].data_ok = TRUE)

C11_Witness ==
    /\ pc = "engine_done"
    /\ Len(file) = 2
    /\ file[1].data_issues = <<"missing_prev_data">> /\ file[1].data_ok = TRUE
    /\ file[2].data_issues = <<"missing_url", "missing_prev_data">> /\ file[2].data_ok = FALSE

\* C12: every row with data_ok true whose data_issues holds the
\* missing_prev_data tag has problem_type insufficient_signals.
C12_NoPrevTagInsufficient ==
    Written =>
        \A i \in 1..Len(file) :
            (file[i].data_ok = TRUE /\ "missing_prev_data" \in Tags(file[i]))
                => file[i].problem_type = "insufficient_signals"

C12_Witness ==
    /\ pc = "engine_done"
    /\ ~has_prev_data(input)
    /\ file[1].data_ok = TRUE
    /\ "missing_prev_data" \in Tags(file[1])
    /\ file[1].problem_type = "insufficient_signals"

\* C14: a written output has exactly one row per input row, row i carrying
\* the cells of input row i, and every row with data_ok false is in it with
\* candidate_type ignore and problem_type no_data.
C14_NoRowDropped ==
    Written =>
        /\ Len(file) = Len(input)
        /\ \A i \in 1..Len(file) :
              /\ \A c \in DOMAIN input[i] \ {"clicks_prev", "impr_prev"} :
                    file[i][c] = input[i][c]
              /\ file[i].data_ok = FALSE =>
                    /\ file[i].candidate_type = "ignore"
                    /\ file[i].problem_type = "no_data"

C14_Witness ==
    /\ pc = "done"
    /\ Len(file) = 2
    /\ file[1].data_ok = FALSE
    /\ file[1].keyword = "form builder"
    /\ file[1].candidate_type = "ignore"
    /\ file[1].problem_type = "no_data"
    /\ file[2].data_ok = TRUE

\* C15: run_engine does not abort on the content of a table that has at
\* least one row: every run completes and writes its output.
C15_EngineNeverAborts == pc # "engine_raised"

TypeOfReason(reason) ==
    CASE reason = "default_monitor"               -> "monitor"
      [] reason = "no_prev_but_high_gap_high_msv" -> "monitor"
      [] reason = "cannibalization_detected"      -> "monitor"
      [] reason = "brand/system_or_bad_data"      -> "ignore"
      [] reason = "high_drop_high_potential_gap"  -> "rescue"
      [] reason = "momentum_with_headroom"        -> "scale"
      [] reason = "growing_far_from_potential"    -> "expand"
      [] OTHER                                    -> "none"

\* C13: in every written output, the final one included, each row carries
\* one candidate_reason out of the seven and its candidate_type is the one
\* that reason stands for: monitor for default_monitor,
\* no_prev_but_high_gap_high_msv and cannibalization_detected, ignore for
\* brand/system_or_bad_data, rescue for high_drop_high_potential_gap, scale
\* for momentum_with_headroom, expand for growing_far_from_potential.
C13_ReasonDeterminesType ==
    Written =>
        \A i \in 1..Len(file) :
            file[i].candidate_type = TypeOfReason(file[i].candidate_reason)

C13_Witness ==
    /\ pc = "done"
    /\ Len(file) = 2
    /\ file[1].candidate_reason = "cannibalization_detected"
    /\ file[1].candidate_type = "monitor"
    /\ file[2].candidate_reason = "no_prev_but_high_gap_high_msv"

\* the record of the end-to-end scenario: non-brand keyword, feature page,
\* 1000 impressions at position 2, 50 clicks after 120, demand estimate 700
IsRescueScenario(r) ==
    /\ r.query_type = "non-brand" /\ r.page_type # "system"
    /\ r.impr_last = Num(1000) /\ r.pos = Num(20)
    /\ r.clicks_last = Num(50) /\ r.clicks_prev = Num(120)
    /\ r.msv_est[1].num = 700 * r.msv_est[1].den /\ r.traffic_gap = Num(100)

\* C16: the record of the end-to-end scenario, when its rescue_score is at
\* least 70, is labelled rescue whatever the other rows of the table are.
C16_ScenarioIsRescue ==
    Written =>
        \A i \in 1..Len(file) :
            (IsRescueScenario(file[i]) /\ score_ge(file[i].rescue_score, ACTION_PERCENTILE))
                => file[i].candidate_type = "rescue"

\* a call of helper fn has returned
Returned(fn) == pc = "returned" /\ arg.fn = fn

Recognised == {"featured_snippet", "paa", "video", "images", "shopping"}

RECURSIVE PenaltyOf(_)
PenaltyOf(S) ==
    IF S = {} THEN 0
    ELSE LET f == CHOOSE g \in S : TRUE IN FeaturePenalty(f) + PenaltyOf(S \ {f})

\* the recognised features present in a feature text, each once
Present(text) == {Normal(text[1][i]) : i \in 1..Len(text[1])} \cap Recognised

\* C17: expected_ctr_adjusted(position, features) is expected_ctr(position)
\* x (1 - min(S, 0.70)), S the sum of the penalties of the distinct
\* recognised features present; a null, empty or entirely unrecognised
\* feature text gives exactly the base rate, a null position gives null.
C17_SerpPenaltyCapped ==
    Returned("_expected_ctr_with_serp") =>
        LET pos  == arg.args[1]
            text == arg.args[2]
            base == _expected_ctr(pos)
        IN  /\ pos = NaN => result = NaN
            /\ (pos # NaN /\ text # NaN) =>
                  result = Num(base[1] * (100 - min2(PenaltyOf(Present(text)), 70)))
            /\ (pos # NaN /\ (text = NaN \/ text = Cell(<<"">>) \/ Present(text) = {})) =>
                  result = Num(base[1] * 100)

C17_Witness ==
    /\ Returned("_expected_ctr_with_serp")
    /\ arg.args = <<Num(10), Cell(<<"featured_snippet", " PAA", "featured_snippet">>)>>
    /\ result = Num(1260)

\* C18: expected_ctr(position) is 0.28 for position <= 1, 0.15 for <= 2,
\* 0.11 for <= 3, 0.08 for <= 4, 0.06 for <= 5, 0.03 for <= 10 and 0.01
\* above 10, null for a null position; the upper end of each step belongs to
\* the step.
C18_ExpectedCtrSteps ==
    Returned("_expected_ctr") =>
        LET pos == arg.args[1]
        IN  IF pos = NaN THEN result = NaN
            ELSE LET p == pos[1]
                 IN  result = Num(CASE p <= 10             -> 28
                                    [] p > 10 /\ p <= 20  -> 15
                                    [] p > 20 /\ p <= 30  -> 11
                                    [] p > 30 /\ p <= 40  -> 8
                                    [] p > 40 /\ p <= 50  -> 6
                                    [] p > 50 /\ p <= 100 -> 3
                                    [] p > 100             -> 1)

C18_Witness ==
    /\ Returned("_expected_ctr")
    /\ arg.args[1] = Num(100)
    /\ result = Num(3)

\* the text the claimed reading hands to the number recogniser: "%" and the
\* surrounding whitespace stripped, then "." dropped as thousands separator
\* and "," made the decimal point when both occur, "," made the decimal
\* point when it occurs alone
ClaimedReading(text) ==
    LET t == Strip(Remove(text, "%"))
    IN  IF HasChar(t, ",") /\ HasChar(t, ".")
        THEN [i \in 1..Len(Remove(t, ".")) |->
                 IF Remove(t, ".")[i] = "," THEN "." ELSE Remove(t, ".")[i]] \o <<>>
        ELSE IF HasChar(t, ",")
        THEN [i \in 1..Len(t) |-> IF t[i] = "," THEN "." ELSE t[i]] \o <<>>
        ELSE t

\* C19: parse_number reads a cell, after stripping "%" and surrounding
\* whitespace, with "." as thousands separator and "," as decimal separator
\* when it holds both, with "," as decimal separator when it holds only ",",
\* and yields null for a null cell and for text that is not a number after
\* this rewriting; "1.234,56" and "1234.56" give 1234.56, "n/a" gives null.
C19_ParseNumber ==
    Returned("_parse_number") =>
        LET x == arg.args[1]
        IN  /\ x = NaN => result = NaN
            /\ x # NaN => result = to_numeric(ClaimedReading(x[1]))
            /\ x = Cell(Text("1.234,56")) => result = Num(Frac(123456, 100))
            /\ x = Cell(Text("1234.56")) => result = Num(Frac(123456, 100))
            /\ x = Cell(Text("n/a")) => result = NaN

C19_Witness ==
    /\ Returned("_parse_number")
    /\ arg.args[1] = Cell(Text("1.234,56"))
    /\ result = Num(Frac(123456, 100))

\* C20: parse_ratio returns parse_number(x)/100 exactly when the parsed
\* magnitude is strictly greater than 5, the parsed value unchanged when its
\* magnitude is <= 5 (5 and -5 included), and null when parse_number
\* returns null.
C20_ParseRatio ==
    Returned("_parse_pct") =>
        LET v == _parse_number(arg.args[1])
        IN  IF v = NaN THEN result = NaN
            ELSE IF v[1].num > 5 * v[1].den \/ v[1].num < (0 - 5) * v[1].den
            THEN /\ result # NaN
                 /\ result[1].num * v[1].den * 100 = v[1].num * result[1].den
            ELSE result = v

C20_Witness ==
    /\ Returned("_parse_pct")
    /\ arg.args[1] = Cell(Text("177.84"))
    /\ result = Num(Frac(17784, 10000))

\* C22: on every row clicks_drop is max(clicks_prev - clicks_last, 0) and
\* clicks_gain is max(clicks_last - clicks_prev, 0); both are >= 0 when
\* defined and they are never both strictly positive.
C22_DropGainExclusive ==
    Written =>
        \A i \in 1..Len(file) :
            LET r == file[i]
            IN  /\ (r.clicks_prev # NaN /\ r.clicks_last # NaN) =>
                      /\ r.clicks_drop = Num(max2(r.clicks_prev[1] - r.clicks_last[1], 0))
                      /\ r.clicks_gain = Num(max2(r.clicks_last[1] - r.clicks_prev[1], 0))
                /\ r.clicks_drop # NaN => r.clicks_drop[1] >= 0
                /\ r.clicks_gain # NaN => r.clicks_gain[1] >= 0
                /\ ~(gt(r.clicks_drop, 0) /\ gt(r.clicks_gain, 0))

C22_Witness ==
    /\ pc = "engine_done"
    /\ Len(file) = 2
    /\ file[1].clicks_drop = Num(70) /\ file[1].clicks_gain = Num(0)
    /\ file[2].clicks_drop = Num(0) /\ file[2].clicks_gain = Num(70)

\* C24: the cannibalization pass does not abort on a row with a missing
\* field: when a keyword has at least two distinct urls and a further row of
\* that keyword has a null url, detect_cannibalization completes.
C24_OverlayNeverAborts == pc # "failed"

\* C26: every row labelled scale has clicks_gain > 0.
C26_ScaleHasGain ==
    Written =>
        \A i \in 1..Len(file) :
            file[i].candidate_type = "scale" => gt(file[i].clicks_gain, 0)

\* C27: within one run two rows have the same non-empty
\* cannibalization_group if and only if they have the same keyword.
C27_GroupIdentifiesKeyword ==
    OverlayDone =>
        \A i, j \in 1..Len(file) :
            (file[i].cannibalization_group # <<>> /\ file[j].cannibalization_group # <<>>) =>
                (file[i].cannibalization_group = file[j].cannibalization_group
                    <=> file[i].keyword = file[j].keyword)

\* C28: whenever the input table has a clicks_prev column, the clicks_prev
\* the engine uses on every row is the input value of that column, also
\* when the table has no impr_prev column.
C28_ClicksPrevKept ==
    (Written /\ "clicks_prev" \in DOMAIN input[1]) =>
        \A i \in 1..Len(file) : file[i].clicks_prev = input[i].clicks_prev

\* C29: every row with problem_type insufficient_signals has the
\* missing_prev_data tag in its data_issues.
C29_InsufficientHasTag ==
    Written =>
        \A i \in 1..Len(file) :
            file[i].problem_type = "insufficient_signals"
                => "missing_prev_data" \in Tags(file[i])

\* C21: for every configured period length p > 0, p < 1 month included,
\* demand_estimate is ((impressions_last or 0) + (impressions_prev or 0))
\* / 2 / p.
C21_DemandEstimate ==
    Returned("msv_est") =>
        LET p    == arg.args[1]
            il   == fillna(arg.args[2], 0)
            ip   == fillna(arg.args[3], 0)
        IN  /\ result # NaN
            /\ result[1].num * 2 * p = (il + ip) * 10 * result[1].den

Last(seq) == seq[Len(seq)]

RetrySafe ==
    LET attempts    == result.attempts
        max_retries == arg.args[1]
    IN  /\ Len(attempts) <= max_retries + 1
        /\ \A n \in 1..(Len(attempts) - 1) : attempts[n] \in Retryable
        /\ pc = "returned" =>
              /\ Last(attempts) = "ok"
              /\ result.value = Len(attempts)
        /\ pc = "raised" =>
              /\ result.exception = Last(attempts)
              /\ result.exception # "ok"
              /\ (Last(attempts) \in Retryable => Len(attempts) = max_retries + 1)
        /\ (attempts # <<>> /\ Last(attempts) \notin Retryable \cup {"ok"}) => pc = "raised"
        /\ (attempts # <<>> /\ Last(attempts) = "ok") => pc = "returned"
        /\ pc = "sleeping" => (Last(attempts) \in Retryable /\ Len(attempts) <= max_retries)

RetryOver == pc \in {"returned", "raised"}

\* C30: retry_call invokes func at most max_retries + 1 times; it returns
\* the result of the first attempt that succeeds, retries only after an
\* attempt raised APIError, APITimeoutError, RateLimitError or
\* APIConnectionError, re-raises at once any other exception and re-raises
\* the last exception once max_retries + 1 attempts have failed; every call
\* ends with a result or an exception.
C30_RetryBounded == [](arg.fn = "retry_call" => RetrySafe) /\ <>RetryOver

C30_Witness ==
    /\ pc = "raised"
    /\ arg.args[1] = MaxRetries
    /\ Len(result.attempts) = MaxRetries + 1
    /\ result.exception = "RateLimitError"
    /\ result.attempt_counter = MaxRetries

\* C25: after update_traffic_gaps_with_serp has recomputed traffic_gap,
\* every row of the table handed downstream with candidate_type rescue or
\* scale still has traffic_gap >= 30.
C25_LabelsAgreeWithGap ==
    pc = "gaps_updated" =>
        \A i \in 1..Len(serp_file) :
            serp_file[i].candidate_type \in {"rescue", "scale"}
                => ge(serp_file[i].traffic_gap, MIN_GAP_FOR_ACTION)

StageOrder == EngineStages \o <<"cannibalization_overlay">>

IsPrefix(a, b) == Len(a) <= Len(b) /\ \A n \in 1..Len(a) : a[n] = b[n]

\* the stages executed so far are the first stages of the order, each once,
\* and a finished run has executed them all
StagesInOrder ==
    /\ IsPrefix(stages, StageOrder)
    /\ pc = "done" => stages = StageOrder

\* columns read through r.get, null when the table does not have them
OptionalColumns == {"clicks_pct", "impr_pct"}

\* the stage about to run finds every column it reads
ReadsAvailable ==
    /\ pc \in {"normalized", "gated", "derived", "scored", "classified"} =>
          StageReads(StageOrder[Len(stages) + 1]) \ OptionalColumns \subseteq DOMAIN loaded[1]
    /\ pc = "engine_done" =>
          StageReads("cannibalization_overlay") \subseteq DOMAIN file[1]

\* a step that executes a stage to its end adds no column an earlier stage
\* reads and changes no column the table already had, analyze_candidate and
\* candidate_reason in the overlay excepted
StageStep ==
    (stages' # stages /\ stages' # <<>> /\ pc' \notin {"engine_raised", "failed"}) =>
        LET last    == stages'[Len(stages')]
            overlay == last = "cannibalization_overlay"
            old     == IF overlay THEN file ELSE IF last = "normalization" THEN input ELSE loaded
            new     == IF overlay THEN file' ELSE loaded'
            added   == DOMAIN new[1] \ DOMAIN old[1]
        IN  /\ Len(new) = Len(old)
            /\ \A n \in 1..Len(stages) : StageReads(stages[n]) \cap added = {}
            /\ last # "normalization" =>
                  \A i \in 1..Len(old) : \A c \in DOMAIN old[i] :
                      \/ new[i][c] = old[i][c]
                      \/ overlay /\ c \in {"analyze_candidate", "candidate_reason"}

\* C23: within one run the stages execute once each, in the order
\* normalization, data-quality gate, derived metrics, percentile scores,
\* problem type, candidate cascade, cannibalization overlay; no stage reads
\* a column that only a later stage produces, and no column written by an
\* earlier stage is changed by a later one, analyze_candidate and
\* candidate_reason in the overlay excepted.
C23_StagesInOrder == [](StagesInOrder /\ ReadsAvailable) /\ [][StageStep]_vars

C23_Witness ==
    /\ pc = "done"
    /\ stages = StageOrder
    /\ Len(file) = 2
    /\ loaded[1].candidate_reason = "default_monitor"
    /\ file[1].candidate_reason = "cannibalization_detected"
    /\ file[1].candidate_type = loaded[1].candidate_type

\* the stage-by-stage run writes the table of the run made in one step
StagedRunAgrees == pc = "engine_done" => file = run_engine(input)

====
